---------------------------- MODULE Spec2Model ----------------------------
(***************************************************************************)
(* MarketplaceNicheScout (src/__main__.py): the GOAP planner, the message  *)
(* broker, the planning robots, the orchestrator and the wiring of main.   *)
(*                                                                         *)
(* Python dicts are functions whose DOMAIN is the set of keys present.     *)
(* Action costs are floats that are multiples of 0.5 in the source; they   *)
(* are kept here in half units (1.0 -> 2, 1.5 -> 3, 2.0 -> 4, 3.0 -> 6),   *)
(* which keeps every sum and comparison exact.                             *)
(***************************************************************************)
EXTENDS Integers, Sequences, FiniteSets, TLC

VARIABLES
    \* ---- one call of GOAPPlanner.plan, statement by statement
    plan_actions,     \* argument actions
    plan_goals,       \* argument goals
    plan_state,       \* argument state (the caller's dict)
    frontier,         \* the heapq list
    explored,         \* the set of state hashes
    plan_pc,          \* "idle" | "call" | "loop" | "returned"
    plan_result,      \* the returned list of actions
    dict_objects,     \* the state dicts of the call by identity, [1] the caller's
    \* ---- MessageBroker and the call stack of the single thread
    queues,           \* MessageBroker.queues: topic -> list of messages
    subscribers,      \* MessageBroker.subscribers: topic -> list of callbacks
    stack,            \* the active calls, innermost last
    \* ---- the robots and the orchestrator
    collector_state,      \* DataCollector.state
    analytics_state,      \* AnalyticsEngine.state
    demand_scores,        \* AnalyticsEngine.demand_scores (None until set)
    analytics_categories, \* AnalyticsEngine.categories (None until set)
    evaluator_state,      \* NicheEvaluator.state
    category_data,        \* NicheEvaluator.category_data
    audience_data,        \* NicheEvaluator.audience_data
    expected_categories,  \* NicheEvaluator.expected_categories
    orchestrator_state,   \* Orchestrator.state
    main_pc,              \* where main is: "start" | "running" | "done"
    recommendation,       \* main's local recommendation
    \* ---- history of the run, read by the claims only
    published,        \* topic -> every message published to it, in order
    consumed,         \* topic -> number of messages consume has removed
    last_consume,     \* the last consume call: queue before, value returned
    last_delivery     \* the last publish call that returned: whom it invoked

plannerVars == <<plan_actions, plan_goals, plan_state, frontier, explored,
                 plan_pc, plan_result, dict_objects>>

brokerVars == <<queues, subscribers, stack>>

analyticsVars == <<analytics_state, demand_scores, analytics_categories>>

evaluatorVars == <<evaluator_state, category_data, audience_data,
                   expected_categories>>

mainVars == <<main_pc, recommendation>>

robotVars == <<collector_state, analyticsVars, evaluatorVars,
               orchestrator_state, mainVars>>

\* what a step that calls publish leaves alone in the broker and the history
publishRest == <<subscribers, consumed, last_consume, last_delivery>>

\* what a step that only moves the stack leaves alone there
stackRest == <<queues, subscribers, published, consumed, last_consume,
               last_delivery>>

historyVars == <<published, consumed, last_consume, last_delivery>>

vars == <<plannerVars, brokerVars, robotVars, historyVars>>

----------------------------------------------------------------------------
(* Bounds of the model *)

\* longest generic action catalog handed to the planner
MaxActions == 3

\* publish calls made from outside any callback in the broker taken on its own
MaxPublishes == 2

\* subscribe calls in all (the client's and the callbacks') in the broker
\* taken on its own
MaxSubscribers == 3

----------------------------------------------------------------------------
(* Helpers on sequences and dicts *)

EmptyDict == <<>>

Range(s) == {s[i] : i \in 1..Len(s)}

RECURSIVE SeqSum(_)
SeqSum(s) == IF s = <<>> THEN 0 ELSE Head(s) + SeqSum(Tail(s))

\* every key a dict of the program uses, in the order sort_keys=True gives
KeyOrder ==
    << "api_available", "audience_analyzed", "audience_data_ready",
       "catalog_accessible", "category_data_ready", "data_analyzed",
       "data_collected", "data_parsed", "decision_made", "demand_calculated",
       "has_category_sales", "has_price_data", "has_seller_count",
       "niche_evaluated", "niches_evaluated", "p", "q", "r",
       "raw_data_received", "trends_identified" >>

----------------------------------------------------------------------------
(* GOAP core *)

Action(name, preconditions, effects, cost) ==
    [name |-> name, preconditions |-> preconditions, effects |-> effects,
     cost |-> cost]

Node(state, actions, cost) ==
    [state |-> state, actions |-> actions, cost |-> cost]

\* Node.__lt__ with the comparison turned around
NodeLtReversed(self, other) == self.cost > other.cost

\* Node.__lt__
NodeLt(self, other) == self.cost < other.cost

\* GOAPPlanner.can_perform
can_perform(action, state) ==
    \A key \in DOMAIN action.preconditions :
        /\ key \in DOMAIN state
        /\ state[key] = action.preconditions[key]

\* apply_effects that only adds missing keys (dict.setdefault)
apply_effectsKeepExisting(action, state) ==
    [key \in (DOMAIN state) \cup (DOMAIN action.effects) |->
        IF key \in DOMAIN state THEN state[key] ELSE action.effects[key]]

\* GOAPPlanner.apply_effects (on the copy the caller passes)
apply_effects(action, state) ==
    [key \in (DOMAIN state) \cup (DOMAIN action.effects) |->
        IF key \in DOMAIN action.effects THEN action.effects[key]
                                         ELSE state[key]]

\* goals_satisfied without the "key not in state" test
goals_satisfiedNoKeyCheck(goals, state) ==
    \A key \in DOMAIN goals :
        key \in DOMAIN state => state[key] = goals[key]

\* GOAPPlanner.goals_satisfied
goals_satisfied(goals, state) ==
    \A key \in DOMAIN goals :
        /\ key \in DOMAIN state
        /\ state[key] = goals[key]

\* GOAPPlanner.state_hash: json.dumps(state, sort_keys=True), the key/value
\* pairs of the dict in sorted key order
RECURSIVE HashFrom(_, _)
HashFrom(state, i) ==
    IF i > Len(KeyOrder) THEN <<>>
    ELSE IF KeyOrder[i] \in DOMAIN state
         THEN <<<<KeyOrder[i], state[KeyOrder[i]]>>>> \o HashFrom(state, i + 1)
         ELSE HashFrom(state, i + 1)

state_hash(state) == HashFrom(state, 1)

\* heapq._siftdown(heap, startpos, pos), positions counted from 0
RECURSIVE SiftdownLoop(_, _, _, _)
SiftdownLoop(heap, startpos, pos, newitem) ==
    IF pos > startpos /\ NodeLt(newitem, heap[((pos - 1) \div 2) + 1])
    THEN SiftdownLoop([heap EXCEPT ![pos + 1] = heap[((pos - 1) \div 2) + 1]],
                      startpos, (pos - 1) \div 2, newitem)
    ELSE [heap EXCEPT ![pos + 1] = newitem]

siftdown(heap, startpos, pos) == SiftdownLoop(heap, startpos, pos, heap[pos + 1])

\* heapq._siftup(heap, pos): bubble the smaller child up to a leaf, then
\* sift the displaced item down from there
RECURSIVE SiftupLoop(_, _, _, _)
SiftupLoop(heap, startpos, pos, newitem) ==
    LET endpos   == Len(heap)
        leftpos  == 2 * pos + 1
        rightpos == leftpos + 1
        childpos == IF rightpos < endpos
                       /\ ~NodeLt(heap[leftpos + 1], heap[rightpos + 1])
                    THEN rightpos ELSE leftpos
    IN  IF leftpos < endpos
        THEN SiftupLoop([heap EXCEPT ![pos + 1] = heap[childpos + 1]],
                        startpos, childpos, newitem)
        ELSE siftdown([heap EXCEPT ![pos + 1] = newitem], startpos, pos)

siftup(heap, pos) == SiftupLoop(heap, pos, pos, heap[pos + 1])

\* heapq.heappush
heappush(heap, item) == siftdown(Append(heap, item), 0, Len(heap))

\* heapq.heappop: the popped item and the remaining heap
heappop(heap) ==
    LET lastelt == heap[Len(heap)]
        rest    == SubSeq(heap, 1, Len(heap) - 1)
    IN  IF rest # <<>>
        THEN [item |-> heap[1], heap |-> siftup([rest EXCEPT ![1] = lastelt], 0)]
        ELSE [item |-> lastelt, heap |-> rest]

\* the for loop of plan: push a successor for every applicable action
RECURSIVE PushSuccessors(_, _, _, _)
PushSuccessors(heap, actions, node, i) ==
    IF i > Len(actions) THEN heap
    ELSE IF can_perform(actions[i], node.state)
         THEN PushSuccessors(
                  heappush(heap, Node(apply_effects(actions[i], node.state),
                                      Append(node.actions, actions[i]),
                                      node.cost + actions[i].cost)),
                  actions, node, i + 1)
         ELSE PushSuccessors(heap, actions, node, i + 1)

\* the while loop without lines 72-74: every popped node is expanded and
\* none is remembered
WhileBodyNoExplored(actions, goals, s) ==
    IF s.frontier = <<>>
    THEN [s EXCEPT !.done = TRUE, !.result = <<>>]
    ELSE LET popped == heappop(s.frontier)
             node   == popped.item
         IN  IF goals_satisfied(goals, node.state)
             THEN [s EXCEPT !.frontier = popped.heap, !.done = TRUE,
                            !.result = node.actions]
             ELSE [s EXCEPT !.frontier = PushSuccessors(popped.heap, actions, node, 1)]

\* one pass of the while loop of plan on the search state
\* [frontier, explored, done, result]
WhileBody(actions, goals, s) ==
    IF s.frontier = <<>>
    THEN [s EXCEPT !.done = TRUE, !.result = <<>>]
    ELSE LET popped == heappop(s.frontier)
             node   == popped.item
         IN  IF goals_satisfied(goals, node.state)
             THEN [s EXCEPT !.frontier = popped.heap, !.done = TRUE,
                            !.result = node.actions]
             ELSE IF state_hash(node.state) \in s.explored
             THEN [s EXCEPT !.frontier = popped.heap]
             ELSE [s EXCEPT !.frontier = PushSuccessors(popped.heap, actions, node, 1),
                            !.explored = @ \cup {state_hash(node.state)}]

\* the search state plan starts its loop with
PlanEntry(state) ==
    [frontier |-> heappush(<<>>, Node(state, <<>>, 0)), explored |-> {},
     done |-> FALSE, result |-> <<>>]

RECURSIVE PlanLoop(_, _, _)
PlanLoop(actions, goals, s) ==
    IF s.done THEN s.result ELSE PlanLoop(actions, goals, WhileBody(actions, goals, s))

\* GOAPPlanner.plan as a function of its arguments
plan(actions, goals, state) == PlanLoop(actions, goals, PlanEntry(state))


----------------------------------------------------------------------------
(* The action catalogs, goals and initial states of the robots.  Costs in  *)
(* half units.                                                             *)

\* DataCollector.actions
CollectorActions ==
    << Action("fetch_sales_data", [api_available |-> TRUE],
              [has_category_sales |-> TRUE], 2),
       Action("scrape_prices", [catalog_accessible |-> TRUE],
              [has_price_data |-> TRUE], 3),
       Action("count_sellers", [catalog_accessible |-> TRUE],
              [has_seller_count |-> TRUE], 4),
       Action("fallback_api_scraping",
              [api_available |-> FALSE, catalog_accessible |-> TRUE],
              [has_category_sales |-> TRUE, has_price_data |-> TRUE], 6) >>

\* DataCollector.goals
CollectorGoals ==
    [has_category_sales |-> TRUE, has_price_data |-> TRUE,
     has_seller_count |-> TRUE]

\* DataCollector.state after __init__
CollectorInitState ==
    [api_available |-> TRUE, catalog_accessible |-> TRUE,
     has_category_sales |-> FALSE, has_price_data |-> FALSE,
     has_seller_count |-> FALSE]

\* AnalyticsEngine.actions
AnalyticsActions ==
    << Action("parse_raw_data", [raw_data_received |-> TRUE],
              [data_parsed |-> TRUE], 2),
       Action("calculate_demand", [data_parsed |-> TRUE],
              [demand_calculated |-> TRUE], 4),
       Action("analyze_trends", [data_parsed |-> TRUE],
              [trends_identified |-> TRUE], 6) >>

\* AnalyticsEngine.goals
AnalyticsGoals == [demand_calculated |-> TRUE, trends_identified |-> TRUE]

\* AnalyticsEngine.state after __init__
AnalyticsInitState ==
    [raw_data_received |-> FALSE, data_parsed |-> FALSE,
     demand_calculated |-> FALSE, trends_identified |-> FALSE]

\* the catalog NicheEvaluator.try_evaluate builds
EvaluatorActions ==
    << Action("evaluate_category",
              [category_data_ready |-> TRUE, audience_data_ready |-> TRUE],
              [niche_evaluated |-> TRUE], 2) >>

\* the goal NicheEvaluator.try_evaluate plans for
EvaluatorGoals == [niche_evaluated |-> TRUE]

\* NicheEvaluator.state after __init__
EvaluatorInitState ==
    [category_data_ready |-> FALSE, audience_data_ready |-> FALSE,
     niche_evaluated |-> FALSE]

\* Orchestrator.actions, with evaluate_niches not waiting for the audience
OrchestratorActionsNoAudience ==
    << Action("collect_data", EmptyDict, [data_collected |-> TRUE], 2),
       Action("analyze_data", [data_collected |-> TRUE],
              [data_analyzed |-> TRUE], 4),
       Action("research_audience", [data_analyzed |-> TRUE],
              [audience_analyzed |-> TRUE], 3),
       Action("evaluate_niches", [data_analyzed |-> TRUE],
              [niches_evaluated |-> TRUE], 6),
       Action("make_decision", [niches_evaluated |-> TRUE],
              [decision_made |-> TRUE], 2) >>

\* Orchestrator.actions
OrchestratorActions ==
    << Action("collect_data", EmptyDict, [data_collected |-> TRUE], 2),
       Action("analyze_data", [data_collected |-> TRUE],
              [data_analyzed |-> TRUE], 4),
       Action("research_audience", [data_analyzed |-> TRUE],
              [audience_analyzed |-> TRUE], 3),
       Action("evaluate_niches",
              [data_analyzed |-> TRUE, audience_analyzed |-> TRUE],
              [niches_evaluated |-> TRUE], 6),
       Action("make_decision", [niches_evaluated |-> TRUE],
              [decision_made |-> TRUE], 2) >>

\* the goals of Orchestrator.run_workflow
OrchestratorGoals == [decision_made |-> TRUE]

\* Orchestrator.state after __init__
OrchestratorInitState ==
    [data_collected |-> FALSE, data_analyzed |-> FALSE,
     audience_analyzed |-> FALSE, niches_evaluated |-> FALSE,
     decision_made |-> FALSE]

----------------------------------------------------------------------------
(* Message broker: queues, subscriber lists and synchronous dispatch.  The *)
(* program is single-threaded; stack holds its active calls.  A call of    *)
(* publish stays on the stack while its for loop runs the callbacks.       *)

\* an Optional value: None, or the value wrapped
None == <<>>

Some(x) == <<x>>

Topics ==
    { "market.raw_data", "market.analyzed_data", "audience.insights",
      "niche.evaluations", "niche.recommendation", "orchestrator.command",
      "t1", "t2" }

\* no call of plan is being followed step by step
PlannerIdle ==
    /\ plan_actions = <<>>
    /\ plan_goals = EmptyDict
    /\ plan_state = EmptyDict
    /\ frontier = <<>>
    /\ explored = {}
    /\ plan_pc = "idle"
    /\ plan_result = <<>>
    /\ dict_objects = <<>>

\* MessageBroker.__init__: defaultdict(list) for both
BrokerEmpty ==
    /\ queues = [t \in Topics |-> <<>>]
    /\ subscribers = [t \in Topics |-> <<>>]
    /\ stack = <<>>

HistoryEmpty ==
    /\ published = [t \in Topics |-> <<>>]
    /\ consumed = [t \in Topics |-> 0]
    /\ last_consume = None
    /\ last_delivery = None

\* the robots and the orchestrator after their __init__
RobotsConstructed ==
    /\ collector_state = CollectorInitState
    /\ analytics_state = AnalyticsInitState
    /\ demand_scores = None
    /\ analytics_categories = None
    /\ evaluator_state = EvaluatorInitState
    /\ category_data = EmptyDict
    /\ audience_data = EmptyDict
    /\ expected_categories = {}
    /\ orchestrator_state = OrchestratorInitState
    /\ main_pc = "start"
    /\ recommendation = None

\* a call of function fn with argument message, about to run its body
CallFrame(fn, message) ==
    [fn |-> fn, pc |-> "start", queue |-> "", message |-> message, i |-> 0,
     plan |-> <<>>, registered |-> <<>>, invoked |-> <<>>]

\* a call of publish(queue, message) about to start its for loop; registered
\* and invoked record the subscriber list at the call and the callbacks run
PublishFrame(queue, message) ==
    [fn |-> "publish", pc |-> "deliver", queue |-> queue, message |-> message,
     i |-> 0, plan |-> <<>>, registered |-> subscribers[queue],
     invoked |-> <<>>]

Top == stack[Len(stack)]

Running(fn, pc) == stack # <<>> /\ Top.fn = fn /\ Top.pc = pc

WithTop(f) == [stack EXCEPT ![Len(stack)] = f]

Popped == SubSeq(stack, 1, Len(stack) - 1)

\* MessageBroker.publish called with the caller's stack being base: line 113
\* appends the message, then the for loop of line 114 starts
PublishFrom(base, queue, message) ==
    /\ queues' = [queues EXCEPT ![queue] = Append(@, message)]
    /\ published' = [published EXCEPT ![queue] = Append(@, message)]
    /\ stack' = Append(base, PublishFrame(queue, message))

\* the for loop of publish over the live list: the list iterator yields
\* subscribers[queue][i] as long as i is below the current length
PublishHasNextLive(f) == f.i < Len(subscribers[f.queue])

\* a for loop over a copy of the list taken when publish was called
PublishHasNextSnapshot(f) == f.i < Len(f.registered)

PublishHasNext(f) == PublishHasNextLive(f)

\* line 115: the next callback is called with the message
PublishDeliver ==
    /\ Running("publish", "deliver")
    /\ PublishHasNext(Top)
    /\ LET callback == subscribers[Top.queue][Top.i + 1]
       IN  stack' = Append(WithTop([Top EXCEPT !.i = @ + 1,
                                               !.invoked = Append(@, callback)]),
                           CallFrame(callback, Top.message))
    /\ UNCHANGED <<queues, subscribers, published, consumed, last_consume,
                   last_delivery>>
    /\ UNCHANGED <<plannerVars, robotVars>>

\* the for loop is over: publish returns
PublishReturn ==
    /\ Running("publish", "deliver")
    /\ ~PublishHasNext(Top)
    /\ stack' = Popped
    /\ last_delivery' = Some([queue |-> Top.queue,
                               registered |-> Top.registered,
                               invoked |-> Top.invoked])
    /\ UNCHANGED <<queues, subscribers, published, consumed, last_consume>>
    /\ UNCHANGED <<plannerVars, robotVars>>

\* a function other than publish has run its last statement and returns
Return ==
    /\ stack # <<>>
    /\ Top.fn # "publish"
    /\ Top.pc = "return"
    /\ stack' = Popped
    /\ UNCHANGED <<queues, subscribers, historyVars>>
    /\ UNCHANGED <<plannerVars, robotVars>>

\* MessageBroker.consume with pop() in place of pop(0)
consumeNewest(queue) ==
    IF queues[queue] # <<>>
    THEN [result |-> Some(queues[queue][Len(queues[queue])]),
          rest |-> SubSeq(queues[queue], 1, Len(queues[queue]) - 1)]
    ELSE [result |-> None, rest |-> queues[queue]]

\* MessageBroker.consume: the value returned and the list left
consume(queue) ==
    IF queues[queue] # <<>>
    THEN [result |-> Some(Head(queues[queue])), rest |-> Tail(queues[queue])]
    ELSE [result |-> None, rest |-> queues[queue]]

\* the effect of a consume call on the broker and on the history
ConsumeCall(queue) ==
    /\ queues' = [queues EXCEPT ![queue] = consume(queue).rest]
    /\ last_consume' = Some([queue |-> queue, before |-> queues[queue],
                             result |-> consume(queue).result,
                             after |-> consume(queue).rest])
    /\ consumed' = [consumed EXCEPT ![queue] = @ + Len(queues[queue])
                                                  - Len(consume(queue).rest)]

----------------------------------------------------------------------------
(* The broker taken on its own, driven by a client with small callbacks:   *)
(* one that returns at once, one that subscribes another callback to the   *)
(* topic it was called for, one that publishes the message on to t2, one   *)
(* that consumes from t1.                                                  *)

ClientTopics == {"t1", "t2"}

ClientCallbacks == {"cb_noop", "cb_subscribe", "cb_forward", "cb_consume"}

InitBroker ==
    /\ BrokerEmpty
    /\ HistoryEmpty
    /\ RobotsConstructed
    /\ PlannerIdle

TotalPublished ==
    Len(published["t1"]) + Len(published["t2"])

TotalSubscribed ==
    Len(subscribers["t1"]) + Len(subscribers["t2"])

\* the client calls subscribe(queue, callback); cb_forward only on t1, so
\* that forwarding is not recursive
ClientSubscribe ==
    /\ stack = <<>>
    /\ \E queue \in ClientTopics, callback \in ClientCallbacks :
          /\ TotalSubscribed < MaxSubscribers
          /\ callback = "cb_forward" => queue = "t1"
          /\ subscribers' = [subscribers EXCEPT ![queue] = Append(@, callback)]
    /\ UNCHANGED <<queues, stack, historyVars>>
    /\ UNCHANGED <<plannerVars, robotVars>>

\* the client calls publish(queue, message) with a fresh message
ClientPublish ==
    /\ stack = <<>>
    /\ TotalPublished < MaxPublishes
    /\ \E queue \in ClientTopics :
          PublishFrom(stack, queue, TotalPublished + 1)
    /\ UNCHANGED <<subscribers, consumed, last_consume, last_delivery>>
    /\ UNCHANGED <<plannerVars, robotVars>>

\* the client calls consume(queue)
ClientConsume ==
    /\ stack = <<>>
    /\ \E queue \in ClientTopics : ConsumeCall(queue)
    /\ UNCHANGED <<subscribers, stack, published, last_delivery>>
    /\ UNCHANGED <<plannerVars, robotVars>>

\* callback cb_noop: returns
CallbackNoop ==
    /\ Running("cb_noop", "start")
    /\ stack' = WithTop([Top EXCEPT !.pc = "return"])
    /\ UNCHANGED <<queues, subscribers, historyVars>>
    /\ UNCHANGED <<plannerVars, robotVars>>

\* callback cb_subscribe: broker.subscribe(queue it was called for, cb_noop)
CallbackSubscribe ==
    /\ Running("cb_subscribe", "start")
    /\ LET queue == stack[Len(stack) - 1].queue
       IN  /\ TotalSubscribed < MaxSubscribers
           /\ subscribers' = [subscribers EXCEPT ![queue] = Append(@, "cb_noop")]
    /\ stack' = WithTop([Top EXCEPT !.pc = "return"])
    /\ UNCHANGED <<queues, historyVars>>
    /\ UNCHANGED <<plannerVars, robotVars>>

\* callback cb_forward: broker.publish("t2", message)
CallbackForward ==
    /\ Running("cb_forward", "start")
    /\ PublishFrom(WithTop([Top EXCEPT !.pc = "return"]), "t2", Top.message)
    /\ UNCHANGED <<subscribers, consumed, last_consume, last_delivery>>
    /\ UNCHANGED <<plannerVars, robotVars>>

\* callback cb_consume: broker.consume("t1")
CallbackConsume ==
    /\ Running("cb_consume", "start")
    /\ ConsumeCall("t1")
    /\ stack' = WithTop([Top EXCEPT !.pc = "return"])
    /\ UNCHANGED <<subscribers, published, last_delivery>>
    /\ UNCHANGED <<plannerVars, robotVars>>

NextBroker ==
    \/ ClientSubscribe
    \/ ClientPublish
    \/ ClientConsume
    \/ PublishDeliver
    \/ PublishReturn
    \/ Return
    \/ CallbackNoop
    \/ CallbackSubscribe
    \/ CallbackForward
    \/ CallbackConsume

SpecBroker == InitBroker /\ [][NextBroker]_vars

----------------------------------------------------------------------------
(* Inputs of the planner taken on its own: the catalogs of the robots over *)
(* every assignment of their propositions, and generic catalogs built from *)
(* a pool of actions over p, q, r with a cheap two-step route, a dearer    *)
(* direct one, an action that undoes another and one that needs a false    *)
(* proposition.                                                            *)

\* every dict with exactly the keys of d and boolean values
BoolStatesLike(d) == [DOMAIN d -> BOOLEAN]

\* every dict over a subset of keys
PartialStates(keys) == UNION {[ks -> BOOLEAN] : ks \in SUBSET keys}

ActionPool ==
    { Action("set_p",   EmptyDict,     [p |-> TRUE],  2),
      Action("p_to_q",  [p |-> TRUE],  [q |-> TRUE],  2),
      Action("set_q",   EmptyDict,     [q |-> TRUE],  6),
      Action("q_unset_p", [q |-> TRUE], [p |-> FALSE], 2),
      Action("notp_to_r", [p |-> FALSE], [r |-> TRUE], 3) }

RECURSIVE SeqsUpTo(_, _)
SeqsUpTo(S, n) ==
    IF n = 0 THEN {<<>>}
    ELSE LET shorter == SeqsUpTo(S, n - 1)
         IN  shorter \cup {Append(s, x) : s \in shorter, x \in S}

GenericCatalogs == SeqsUpTo(ActionPool, MaxActions)

GenericGoals ==
    { [q |-> TRUE], [q |-> TRUE, r |-> TRUE], [p |-> TRUE, r |-> TRUE],
      [p |-> FALSE] }

GenericStates == PartialStates({"p", "q"})

\* the (actions, goals, state) the planner is called with
PlannerInputs ==
    {<<a, g, s>> : a \in GenericCatalogs, g \in GenericGoals, s \in GenericStates}
    \cup {<<CollectorActions, CollectorGoals, s>> : s \in BoolStatesLike(CollectorInitState)}
    \cup {<<AnalyticsActions, AnalyticsGoals, s>> : s \in BoolStatesLike(AnalyticsInitState)}
    \cup {<<EvaluatorActions, EvaluatorGoals, s>> : s \in BoolStatesLike(EvaluatorInitState)}
    \cup {<<OrchestratorActions, OrchestratorGoals, s>> : s \in BoolStatesLike(OrchestratorInitState)}

----------------------------------------------------------------------------
(* GOAPPlanner.plan, one statement group per step *)

InitPlanner ==
    /\ \E in \in PlannerInputs :
          /\ plan_actions = in[1]
          /\ plan_goals = in[2]
          /\ plan_state = in[3]
    /\ frontier = <<>>
    /\ explored = {}
    /\ plan_pc = "call"
    /\ plan_result = <<>>
    /\ dict_objects = <<>>
    /\ BrokerEmpty
    /\ RobotsConstructed
    /\ HistoryEmpty

SearchState ==
    [frontier |-> frontier, explored |-> explored,
     done |-> plan_pc = "returned", result |-> plan_result]

\* lines 64-66: the frontier holds the root node
PlanCall ==
    /\ plan_pc = "call"
    /\ frontier' = PlanEntry(plan_state).frontier
    /\ explored' = PlanEntry(plan_state).explored
    /\ plan_pc' = "loop"
    /\ UNCHANGED <<plan_actions, plan_goals, plan_state, plan_result, dict_objects>>
    /\ UNCHANGED <<brokerVars, robotVars, historyVars>>

ApplyWhileBody ==
    LET n == WhileBody(plan_actions, plan_goals, SearchState)
    IN  /\ frontier' = n.frontier
        /\ explored' = n.explored
        /\ plan_result' = n.result
        /\ plan_pc' = IF n.done THEN "returned" ELSE "loop"
        /\ UNCHANGED <<plan_actions, plan_goals, plan_state, dict_objects>>
        /\ UNCHANGED <<brokerVars, robotVars, historyVars>>

\* lines 68-70: the popped node satisfies the goals
PlanReturnGoal ==
    /\ plan_pc = "loop"
    /\ frontier # <<>>
    /\ goals_satisfied(plan_goals, heappop(frontier).item.state)
    /\ ApplyWhileBody

\* lines 71-73: the popped node's state was explored before
PlanSkipExplored ==
    /\ plan_pc = "loop"
    /\ frontier # <<>>
    /\ ~goals_satisfied(plan_goals, heappop(frontier).item.state)
    /\ state_hash(heappop(frontier).item.state) \in explored
    /\ ApplyWhileBody

\* lines 74-83: the popped node is expanded
PlanExpand ==
    /\ plan_pc = "loop"
    /\ frontier # <<>>
    /\ ~goals_satisfied(plan_goals, heappop(frontier).item.state)
    /\ state_hash(heappop(frontier).item.state) \notin explored
    /\ ApplyWhileBody

\* line 84: the frontier is exhausted
PlanExhausted ==
    /\ plan_pc = "loop"
    /\ frontier = <<>>
    /\ ApplyWhileBody

NextPlanner ==
    \/ PlanCall
    \/ PlanReturnGoal
    \/ PlanSkipExplored
    \/ PlanExpand
    \/ PlanExhausted

SpecPlanner == InitPlanner /\ [][NextPlanner]_vars


----------------------------------------------------------------------------
(* The planning problem stated on its own terms (spec section 3), for the  *)
(* claims about the planner: which actions apply, what they yield, which   *)
(* states are reachable and what the cheapest way to the goal costs.       *)

Applicable(a, s) ==
    \A k \in DOMAIN a.preconditions : k \in DOMAIN s /\ s[k] = a.preconditions[k]

Outcome(a, s) ==
    [k \in (DOMAIN s) \cup (DOMAIN a.effects) |->
        IF k \in DOMAIN a.effects THEN a.effects[k] ELSE s[k]]

Satisfies(g, s) == \A k \in DOMAIN g : k \in DOMAIN s /\ s[k] = g[k]

Successors(A, s) == {Outcome(a, s) : a \in {b \in Range(A) : Applicable(b, s)}}

RECURSIVE ReachClosure(_, _)
ReachClosure(A, seen) ==
    LET more == seen \cup UNION {Successors(A, s) : s \in seen}
    IN  IF more = seen THEN seen ELSE ReachClosure(A, more)

\* every state reachable from s by applicable actions of A (s included)
ReachableStates(A, s) == ReachClosure(A, {s})

GoalReachable(A, g, s) == \E t \in ReachableStates(A, s) : Satisfies(g, t)

SetMin(S) == CHOOSE x \in S : \A y \in S : x <= y

\* cheapest cost to the goal from every state of R, -1 where there is none:
\* value iteration to its fixed point
RECURSIVE CheapestFrom(_, _, _, _)
CheapestFrom(A, g, R, v) ==
    LET onward(s) == {a.cost + v[Outcome(a, s)] :
                        a \in {b \in Range(A) :
                                 Applicable(b, s) /\ v[Outcome(b, s)] # -1}}
        w == [s \in R |-> IF Satisfies(g, s) THEN 0
                          ELSE IF onward(s) = {} THEN -1
                          ELSE SetMin(onward(s))]
    IN  IF w = v THEN v ELSE CheapestFrom(A, g, R, w)

CheapestCost(A, g, s) ==
    LET R == ReachableStates(A, s)
    IN  CheapestFrom(A, g, R, [t \in R |-> IF Satisfies(g, t) THEN 0 ELSE -1])[s]

PlanCost(pl) == SeqSum([i \in 1..Len(pl) |-> pl[i].cost])

\* the plan run from s: whether every action applied in turn, and the state left
RECURSIVE RunPlan(_, _)
RunPlan(pl, s) ==
    IF pl = <<>> THEN [ok |-> TRUE, state |-> s]
    ELSE IF Applicable(Head(pl), s) THEN RunPlan(Tail(pl), Outcome(Head(pl), s))
    ELSE [ok |-> FALSE, state |-> s]

PlanReturned == plan_pc = "returned"

----------------------------------------------------------------------------
(* Claims about GOAPPlanner.plan (SpecPlanner) *)

\* C1: a non-empty returned plan is cost-optimal: no way from the initial
\* state to a goal state costs strictly less than the plan.
C1_PlanCostOptimal ==
    (PlanReturned /\ plan_result # <<>>) =>
        LET best == CheapestCost(plan_actions, plan_goals, plan_state)
        IN  best = -1 \/ PlanCost(plan_result) <= best

\* C1 witness: a plan of two or more actions was returned although a single
\* applicable action of the catalog reaches the goal at a higher cost.
C1_Witness ==
    /\ PlanReturned
    /\ Len(plan_result) >= 2
    /\ \E a \in Range(plan_actions) :
          /\ Applicable(a, plan_state)
          /\ Satisfies(plan_goals, Outcome(a, plan_state))
          /\ a.cost > PlanCost(plan_result)

\* C2 as stated: the returned plan is empty exactly when no goal state is
\* reachable from the initial state.
C2_EmptyIffUnreachable ==
    PlanReturned =>
        (plan_result = <<>> <=> ~GoalReachable(plan_actions, plan_goals, plan_state))

\* C2 amended: the returned plan is empty exactly when the initial state
\* already satisfies the goal or no goal state is reachable from it.
C2_EmptyIffSatisfiedOrUnreachable ==
    PlanReturned =>
        (plan_result = <<>> <=>
            \/ Satisfies(plan_goals, plan_state)
            \/ ~GoalReachable(plan_actions, plan_goals, plan_state))

\* C2 witness: an empty plan was returned for a goal the initial state
\* already satisfies, with an action of the catalog applicable there.
C2_Witness ==
    /\ PlanReturned
    /\ plan_result = <<>>
    /\ plan_goals # EmptyDict
    /\ Satisfies(plan_goals, plan_state)
    /\ \E a \in Range(plan_actions) : Applicable(a, plan_state)

\* C3 as stated: running the returned plan from the initial state, every
\* action applies in turn and the state left satisfies the goal.
C3_PlanReachesGoal ==
    PlanReturned =>
        /\ RunPlan(plan_result, plan_state).ok
        /\ Satisfies(plan_goals, RunPlan(plan_result, plan_state).state)

\* C3 amended: the same, whenever a goal state is reachable from the initial
\* state (the empty plan returned for an unreachable goal leaves the initial
\* state, which does not satisfy the goal).
C3_PlanReachesGoalWhenReachable ==
    (PlanReturned /\ GoalReachable(plan_actions, plan_goals, plan_state)) =>
        /\ RunPlan(plan_result, plan_state).ok
        /\ Satisfies(plan_goals, RunPlan(plan_result, plan_state).state)

\* C3 witness: a returned plan of three or more actions, one of which
\* overwrites a proposition that an earlier one set.
C3_Witness ==
    /\ PlanReturned
    /\ Len(plan_result) >= 3
    /\ \E i, j \in 1..Len(plan_result) :
          /\ i < j
          /\ \E k \in DOMAIN plan_result[i].effects :
                /\ k \in DOMAIN plan_result[j].effects
                /\ plan_result[i].effects[k] # plan_result[j].effects[k]


----------------------------------------------------------------------------
(* Claims about MessageBroker (SpecBroker) *)

IsPrefix(s, t) == Len(s) <= Len(t) /\ s = SubSeq(t, 1, Len(s))

\* C4: a publish call invokes exactly the subscribers registered for its
\* topic when it was called, in registration order, once each: while it runs
\* the callbacks it has invoked are a prefix of that list, when it returns
\* they are that list; a callback subscribed during the dispatch is not
\* among them.
C4_InvokesCallTimeSubscribers ==
    /\ \A k \in 1..Len(stack) :
          stack[k].fn = "publish" => IsPrefix(stack[k].invoked, stack[k].registered)
    /\ last_delivery # None =>
          last_delivery[1].invoked = last_delivery[1].registered

\* C5: every topic's queue is what was published to it, in publish order,
\* without the prefix consume has removed; consume returned the oldest
\* remaining message and removed it, or returned None and left the queue
\* as it was when none remained.
C5_QueueIsUnconsumedSuffix ==
    /\ \A t \in Topics :
          queues[t] = SubSeq(published[t], consumed[t] + 1, Len(published[t]))
    /\ last_consume # None =>
          IF last_consume[1].before = <<>>
          THEN last_consume[1].result = None /\ last_consume[1].after = <<>>
          ELSE /\ last_consume[1].result = Some(Head(last_consume[1].before))
               /\ last_consume[1].after = Tail(last_consume[1].before)

\* C5 witness: inside a callback run by a publish call, consume has removed
\* the oldest message of a topic that still holds a later one, after a
\* message went through a nested publish.
C5_Witness ==
    /\ Running("cb_consume", "return")
    /\ last_consume # None
    /\ last_consume[1].result # None
    /\ last_consume[1].after # <<>>
    /\ queues["t1"] = last_consume[1].after
    /\ published["t2"] # <<>>


----------------------------------------------------------------------------
(* The planner calls of the robots.  Each robot plans with its own catalog *)
(* and goal from a state over its own keys: its plans over every           *)
(* assignment of those keys, as pairs <<state, plan>>.                     *)

PlansOver(actions, goals, init) ==
    { <<s, plan(actions, goals, s)>> : s \in BoolStatesLike(init) }

\* self.planner.plan(self.actions, self.goals, self.state) of DataCollector
CollectorPlans == PlansOver(CollectorActions, CollectorGoals, CollectorInitState)

\* self.planner.plan(self.actions, self.goals, self.state) of AnalyticsEngine
AnalyticsPlans == PlansOver(AnalyticsActions, AnalyticsGoals, AnalyticsInitState)

\* the planner call of NicheEvaluator.try_evaluate
EvaluatorPlans == PlansOver(EvaluatorActions, EvaluatorGoals, EvaluatorInitState)

\* self.planner.plan(self.actions, goals, self.state) of Orchestrator
OrchestratorPlans ==
    PlansOver(OrchestratorActions, OrchestratorGoals, OrchestratorInitState)

\* the plan for the given state
PlanIn(plans, state) == (CHOOSE p \in plans : p[1] = state)[2]

----------------------------------------------------------------------------
(* The robots.  Numbers are integers: prices in whole units, scores        *)
(* (competition, trend, audience, risk) in hundredths, profitability in    *)
(* thousandths, confidence in units of 10^-7.                              *)

\* DataCollector.categories (the Russian names of the source, in English)
CategoryNames ==
    << "Electronics", "HomeAndGarden", "Beauty", "Clothing", "Kids", "Auto" >>

\* f"cat_{cat_id}" over enumerate(self.categories)
CategoryIds == << "cat_0", "cat_1", "cat_2", "cat_3", "cat_4", "cat_5" >>

\* outcomes of random.randint(500, 5000), random.uniform(10, 500) and
\* random.uniform(0.1, 0.9) for the six categories: a few draws
RandomDraws ==
    { [i \in 1..6 |-> [monthly_sales |-> 500, avg_price |-> 10,
                       competition_score |-> 10]],
      [i \in 1..6 |-> [monthly_sales |-> 500 + 100 * i, avg_price |-> 26 - 2 * i,
                       competition_score |-> 15 * i]],
      [i \in 1..6 |-> [monthly_sales |-> 1200 - 100 * i, avg_price |-> 10 + i,
                       competition_score |-> 90]] }

\* CategoryData(id, name, monthly_sales, avg_price, competition_score), with
\* trend_score at its default 0.0
CategoryData(id, name, draw) ==
    [id |-> id, name |-> name, monthly_sales |-> draw.monthly_sales,
     avg_price |-> draw.avg_price, competition_score |-> draw.competition_score,
     trend_score |-> 0]

\* the market.raw_data message DataCollector.publish_data builds; the event
\* id is a fresh uuid, here the number of the event
RawDataMessage(draws) ==
    [event_id |-> Len(published["market.raw_data"]) + 1,
     platform |-> "wildberries",
     categories |-> [i \in 1..Len(CategoryNames) |->
                        CategoryData(CategoryIds[i], CategoryNames[i], draws[i])]]

\* callbacks of which the fallback marks the API as available again
CollectorCallbackMarksApi(name, state) ==
    CASE name = "fetch_sales_data" -> [state EXCEPT !.has_category_sales = TRUE]
      [] name = "scrape_prices" -> [state EXCEPT !.has_price_data = TRUE]
      [] name = "count_sellers" -> [state EXCEPT !.has_seller_count = TRUE]
      [] name = "fallback_api_scraping" ->
            [state EXCEPT !.has_category_sales = TRUE, !.has_price_data = TRUE,
                          !.api_available = TRUE]
      [] OTHER -> state

\* callbacks of which count_sellers leaves has_seller_count as it was
CollectorCallbackForgets(name, state) ==
    CASE name = "fetch_sales_data" -> [state EXCEPT !.has_category_sales = TRUE]
      [] name = "scrape_prices" -> [state EXCEPT !.has_price_data = TRUE]
      [] name = "fallback_api_scraping" ->
            [state EXCEPT !.has_category_sales = TRUE, !.has_price_data = TRUE]
      [] OTHER -> state

\* the callbacks of DataCollector.collect_data, by action name
CollectorCallback(name, state) ==
    CASE name = "fetch_sales_data" -> [state EXCEPT !.has_category_sales = TRUE]
      [] name = "scrape_prices" -> [state EXCEPT !.has_price_data = TRUE]
      [] name = "count_sellers" -> [state EXCEPT !.has_seller_count = TRUE]
      [] name = "fallback_api_scraping" ->
            [state EXCEPT !.has_category_sales = TRUE, !.has_price_data = TRUE]
      [] OTHER -> state

IntMax(a, b) == IF a >= b THEN a ELSE b

IntMin(a, b) == IF a <= b THEN a ELSE b

\* calculate_demand: (monthly_sales * (1 + monthly_sales / 1000)) /
\* max(competition_score, 0.01) as the exact fraction <<numerator, denominator>>
DemandScore(category) ==
    << category.monthly_sales * (1000 + category.monthly_sales),
       10 * IntMax(category.competition_score, 1) >>

\* analyze_trends: 0.9 for electronics, 0.7 for home, 0.5 otherwise
TrendScore(category) ==
    IF category.name = "Electronics" THEN 90
    ELSE IF category.name = "HomeAndGarden" THEN 70
    ELSE 50

\* steps of which analyze_trends marks the raw data as used up
AnalyticsStepUsesUpInput(name, categories, a) ==
    CASE name = "parse_raw_data" ->
            [a EXCEPT !.state.data_parsed = TRUE]
      [] name = "calculate_demand" ->
            [a EXCEPT !.state.demand_calculated = TRUE,
                      !.demand_scores =
                          Some([i \in 1..Len(categories) |->
                                    <<categories[i].id, DemandScore(categories[i])>>])]
      [] name = "analyze_trends" ->
            [a EXCEPT !.state.trends_identified = TRUE,
                      !.state.raw_data_received = FALSE,
                      !.categories =
                          Some([i \in 1..Len(categories) |->
                                    [categories[i] EXCEPT
                                        !.trend_score = TrendScore(categories[i])]])]
      [] OTHER -> a

\* the steps of AnalyticsEngine.process_data, by action name, on
\* [state, demand_scores, categories]
AnalyticsStep(name, categories, a) ==
    CASE name = "parse_raw_data" ->
            [a EXCEPT !.state.data_parsed = TRUE]
      [] name = "calculate_demand" ->
            [a EXCEPT !.state.demand_calculated = TRUE,
                      !.demand_scores =
                          Some([i \in 1..Len(categories) |->
                                    <<categories[i].id, DemandScore(categories[i])>>])]
      [] name = "analyze_trends" ->
            [a EXCEPT !.state.trends_identified = TRUE,
                      !.categories =
                          Some([i \in 1..Len(categories) |->
                                    [categories[i] EXCEPT
                                        !.trend_score = TrendScore(categories[i])]])]
      [] OTHER -> a

\* the audience.insights message AudienceResearch.analyze_category builds
AudienceMessage(category) ==
    [category_id |-> category.id, audience_score |-> 80,
     personas |-> IF category.name = "Electronics"
                  THEN <<"tech_enthusiast">> ELSE <<"home_improver">>]

\* category_data[cat.id] = cat on a dict kept as the list of its values in
\* insertion order: an existing key keeps its place
RECURSIVE DictPut(_, _)
DictPut(d, cat) ==
    IF d = <<>> THEN <<cat>>
    ELSE IF Head(d).id = cat.id THEN <<cat>> \o Tail(d)
    ELSE <<Head(d)>> \o DictPut(Tail(d), cat)

RECURSIVE DictFromList(_, _)
DictFromList(d, items) ==
    IF items = <<>> THEN d ELSE DictFromList(DictPut(d, Head(items)), Tail(items))

DictKeys(d) == {d[i].id : i \in 1..Len(d)}

\* NicheEvaluator.compliance_rules.get(name, True)
ComplianceRule(name) ==
    CASE name = "Kids" -> TRUE
      [] name = "Auto" -> TRUE
      [] OTHER -> TRUE

\* the evaluations NicheEvaluator.evaluate_categories builds
RECURSIVE Evaluations(_, _)
Evaluations(cats, audience) ==
    IF cats = <<>> THEN <<>>
    ELSE IF Head(cats).id \notin DOMAIN audience THEN Evaluations(Tail(cats), audience)
    ELSE << [category_id |-> Head(cats).id,
             category_name |-> Head(cats).name,
             profitability_score |->
                 Head(cats).monthly_sales * Head(cats).avg_price * 2
                     * audience[Head(cats).id].audience_score,
             risk_score |-> 100 - Head(cats).trend_score,
             compliance_ok |-> ComplianceRule(Head(cats).name)] >>
         \o Evaluations(Tail(cats), audience)

\* NicheEvaluator.try_evaluate: whether evaluate_categories is called
TryEvaluateUnlocks(state) ==
    /\ state.category_data_ready
    /\ state.audience_data_ready
    /\ PlanIn(EvaluatorPlans, state) # <<>>

\* x.profitability_score / max(x.risk_score, 0.01) of a is above that of b
RatioAbove(a, b) ==
    a.profitability_score * IntMax(b.risk_score, 1)
        > b.profitability_score * IntMax(a.risk_score, 1)

\* max that keeps the last of the largest
RECURSIVE BestNicheLast(_, _)
BestNicheLast(best, rest) ==
    IF rest = <<>> THEN best
    ELSE IF ~RatioAbove(best, Head(rest)) THEN BestNicheLast(Head(rest), Tail(rest))
    ELSE BestNicheLast(best, Tail(rest))

\* max(valid_niches, key=...): the first of the largest
RECURSIVE BestNiche(_, _)
BestNiche(best, rest) ==
    IF rest = <<>> THEN best
    ELSE IF RatioAbove(Head(rest), best) THEN BestNiche(Head(rest), Tail(rest))
    ELSE BestNiche(best, Tail(rest))

\* a filter that lets every evaluation through
ValidNichesAll(evaluations) == evaluations

\* [e for e in evaluations if e.compliance_ok]
ValidNiches(evaluations) == SelectSeq(evaluations, LAMBDA e : e.compliance_ok)

\* the Recommendation DecisionMaker.handle_evaluations builds
MakeRecommendation(evaluations) ==
    LET valid_niches == ValidNiches(evaluations)
    IN  IF valid_niches = <<>>
        THEN [category_id |-> "none", category_name |-> "no_suitable_niche",
              confidence |-> 0, reasons |-> <<"no_category_complies">>]
        ELSE LET best_niche == BestNiche(Head(valid_niches), Tail(valid_niches))
             IN  [category_id |-> best_niche.category_id,
                  category_name |-> best_niche.category_name,
                  confidence |-> IntMin(best_niche.profitability_score, 10000000),
                  reasons |-> <<"high_profitability", "low_risk", "platform_rules">>]

\* the flag each subscription of the orchestrator sets
OrchestratorFlag ==
    [c \in {"Orchestrator.on_raw_data", "Orchestrator.on_analyzed_data",
            "Orchestrator.on_insights", "Orchestrator.on_evaluations",
            "Orchestrator.on_recommendation"} |->
        CASE c = "Orchestrator.on_raw_data" -> "data_collected"
          [] c = "Orchestrator.on_analyzed_data" -> "data_analyzed"
          [] c = "Orchestrator.on_insights" -> "audience_analyzed"
          [] c = "Orchestrator.on_evaluations" -> "niches_evaluated"
          [] OTHER -> "decision_made"]

\* the subscriptions after main has constructed and wired everything
MainSubscribers ==
    [t \in Topics |->
        CASE t = "market.raw_data" ->
                <<"AnalyticsEngine.handle_raw_data", "Orchestrator.on_raw_data">>
          [] t = "market.analyzed_data" ->
                <<"AudienceResearch.handle_analyzed_data",
                  "NicheEvaluator.handle_analyzed_data",
                  "Orchestrator.on_analyzed_data">>
          [] t = "audience.insights" ->
                <<"NicheEvaluator.handle_audience_data", "Orchestrator.on_insights">>
          [] t = "niche.evaluations" ->
                <<"DecisionMaker.handle_evaluations", "Orchestrator.on_evaluations">>
          [] t = "niche.recommendation" -> <<"Orchestrator.on_recommendation">>
          [] t = "orchestrator.command" -> <<"handle_orchestrator_command">>
          [] OTHER -> <<>>]


----------------------------------------------------------------------------
(* The handlers, one action per statement group between two calls *)

\* handle_orchestrator_command (lines 566-569), subscribed at line 548
HandleOrchestratorCommand ==
    /\ Running("handle_orchestrator_command", "start")
    /\ stack' = IF Top.message.command = "collect_data"
                THEN Append(WithTop([Top EXCEPT !.pc = "return"]),
                            CallFrame("DataCollector.collect_data", None))
                ELSE WithTop([Top EXCEPT !.pc = "return"])
    /\ UNCHANGED <<stackRest, plannerVars, robotVars>>

\* collect_data without the test of lines 174-176
CollectDataUnguarded ==
    /\ Running("DataCollector.collect_data", "start")
    /\ stack' = WithTop([Top EXCEPT
                            !.plan = plan(CollectorActions, CollectorGoals,
                                          collector_state),
                            !.i = 0, !.pc = "execute"])
    /\ UNCHANGED <<stackRest, plannerVars, robotVars>>

\* DataCollector.collect_data, lines 172-177: plan, return if it is empty
CollectData ==
    /\ Running("DataCollector.collect_data", "start")
    /\ LET pl == PlanIn(CollectorPlans, collector_state)
       IN  stack' = WithTop([Top EXCEPT !.plan = pl, !.i = 0,
                                        !.pc = IF pl = <<>> THEN "return"
                                                            ELSE "execute"])
    /\ UNCHANGED <<stackRest, plannerVars, robotVars>>

\* DataCollector.collect_data, lines 178-188: the next action of the plan
CollectDataExecute ==
    /\ Running("DataCollector.collect_data", "execute")
    /\ Top.i < Len(Top.plan)
    /\ collector_state' = CollectorCallback(Top.plan[Top.i + 1].name, collector_state)
    /\ stack' = WithTop([Top EXCEPT !.i = @ + 1])
    /\ UNCHANGED <<stackRest, plannerVars, analyticsVars, evaluatorVars,
                   orchestrator_state, mainVars>>

\* DataCollector.publish_data (line 189, lines 208-223)
CollectDataPublish ==
    /\ Running("DataCollector.collect_data", "execute")
    /\ Top.i = Len(Top.plan)
    /\ \E draws \in RandomDraws :
          PublishFrom(WithTop([Top EXCEPT !.pc = "return"]), "market.raw_data",
                      RawDataMessage(draws))
    /\ UNCHANGED <<publishRest, plannerVars, robotVars>>

\* AnalyticsEngine.handle_raw_data and process_data, lines 261-273
HandleRawData ==
    /\ Running("AnalyticsEngine.handle_raw_data", "start")
    /\ LET st == [analytics_state EXCEPT !.raw_data_received = TRUE]
           pl == PlanIn(AnalyticsPlans, st)
       IN  /\ analytics_state' = st
           /\ stack' = WithTop([Top EXCEPT !.plan = pl, !.i = 0,
                                           !.pc = IF pl = <<>> THEN "return"
                                                               ELSE "execute"])
    /\ UNCHANGED <<stackRest, plannerVars, collector_state, demand_scores,
                   analytics_categories, evaluatorVars, orchestrator_state,
                   mainVars>>

\* AnalyticsEngine.process_data, lines 274-297: the next action of the plan
ProcessDataExecute ==
    /\ Running("AnalyticsEngine.handle_raw_data", "execute")
    /\ Top.i < Len(Top.plan)
    /\ LET a == AnalyticsStep(Top.plan[Top.i + 1].name, Top.message.categories,
                              [state |-> analytics_state,
                               demand_scores |-> demand_scores,
                               categories |-> analytics_categories])
       IN  /\ analytics_state' = a.state
           /\ demand_scores' = a.demand_scores
           /\ analytics_categories' = a.categories
    /\ stack' = WithTop([Top EXCEPT !.i = @ + 1])
    /\ UNCHANGED <<stackRest, plannerVars, collector_state, evaluatorVars,
                   orchestrator_state, mainVars>>

\* AnalyticsEngine.publish_results (line 298, lines 300-305); it reads
\* self.demand_scores and self.categories, which the plan's actions set
ProcessDataPublish ==
    /\ Running("AnalyticsEngine.handle_raw_data", "execute")
    /\ Top.i = Len(Top.plan)
    /\ demand_scores # None
    /\ analytics_categories # None
    /\ PublishFrom(WithTop([Top EXCEPT !.pc = "return"]), "market.analyzed_data",
                   [correlation_id |-> Top.message.event_id,
                    demand_scores |-> demand_scores[1],
                    categories |-> analytics_categories[1]])
    /\ UNCHANGED <<publishRest, plannerVars, robotVars>>

\* AudienceResearch.handle_analyzed_data and analyze_category (lines
\* 312-340): the next category
AnalyzeCategory ==
    /\ Running("AudienceResearch.handle_analyzed_data", "start")
    /\ Top.i < Len(Top.message.categories)
    /\ PublishFrom(WithTop([Top EXCEPT !.i = @ + 1]), "audience.insights",
                   AudienceMessage(Top.message.categories[Top.i + 1]))
    /\ UNCHANGED <<publishRest, plannerVars, robotVars>>

\* AudienceResearch.handle_analyzed_data: the loop is over
AnalyzeCategoriesEnd ==
    /\ Running("AudienceResearch.handle_analyzed_data", "start")
    /\ Top.i = Len(Top.message.categories)
    /\ stack' = Popped
    /\ UNCHANGED <<stackRest, plannerVars, robotVars>>

\* NicheEvaluator.try_evaluate and evaluate_categories (lines 379-413) with
\* the state and data the handler has just written
TryEvaluate(state, cats, audience) ==
    IF TryEvaluateUnlocks(state)
    THEN /\ PublishFrom(WithTop([Top EXCEPT !.pc = "return"]), "niche.evaluations",
                        [evaluations |-> Evaluations(cats, audience)])
         /\ UNCHANGED publishRest
    ELSE /\ stack' = WithTop([Top EXCEPT !.pc = "return"])
         /\ UNCHANGED stackRest

\* NicheEvaluator.handle_analyzed_data (lines 361-369)
EvaluatorHandleAnalyzedData ==
    /\ Running("NicheEvaluator.handle_analyzed_data", "start")
    /\ LET cats == DictFromList(<<>>, Top.message.categories)
           st   == [evaluator_state EXCEPT !.category_data_ready = TRUE]
       IN  /\ category_data' = cats
           /\ expected_categories' = DictKeys(cats)
           /\ evaluator_state' = st
           /\ TryEvaluate(st, cats, audience_data)
    /\ UNCHANGED <<plannerVars, collector_state, analyticsVars, audience_data,
                   orchestrator_state, mainVars>>

\* the join test of handle_audience_data on sizes instead of sets
AudienceCompleteBySize(audience, expected) ==
    Cardinality(DOMAIN audience) = Cardinality(expected)

\* the join test of handle_audience_data (line 375)
AudienceComplete(audience, expected) == DOMAIN audience = expected

\* NicheEvaluator.handle_audience_data (lines 371-377)
EvaluatorHandleAudienceData ==
    /\ Running("NicheEvaluator.handle_audience_data", "start")
    /\ LET id  == Top.message.category_id
           aud == [k \in (DOMAIN audience_data) \cup {id} |->
                      IF k = id THEN Top.message ELSE audience_data[k]]
           st  == [evaluator_state EXCEPT !.audience_data_ready = TRUE]
       IN  /\ audience_data' = aud
           /\ IF AudienceComplete(aud, expected_categories)
              THEN /\ evaluator_state' = st
                   /\ TryEvaluate(st, category_data, aud)
              ELSE /\ evaluator_state' = evaluator_state
                   /\ stack' = WithTop([Top EXCEPT !.pc = "return"])
                   /\ UNCHANGED stackRest
    /\ UNCHANGED <<plannerVars, collector_state, analyticsVars, category_data,
                   expected_categories, orchestrator_state, mainVars>>

\* DecisionMaker.handle_evaluations (lines 420-445)
HandleEvaluations ==
    /\ Running("DecisionMaker.handle_evaluations", "start")
    /\ PublishFrom(WithTop([Top EXCEPT !.pc = "return"]), "niche.recommendation",
                   MakeRecommendation(Top.message.evaluations))
    /\ UNCHANGED <<publishRest, plannerVars, robotVars>>

\* the lambdas of lines 493-497 and Orchestrator.update_state (499-505)
OrchestratorUpdateState ==
    /\ stack # <<>>
    /\ Top.fn \in DOMAIN OrchestratorFlag
    /\ Top.pc = "start"
    /\ orchestrator_state' = [orchestrator_state EXCEPT ![OrchestratorFlag[Top.fn]] = TRUE]
    /\ stack' = Append(WithTop([Top EXCEPT !.pc = "return"]),
                       CallFrame("Orchestrator.run_workflow", None))
    /\ UNCHANGED <<stackRest, plannerVars, collector_state, analyticsVars,
                   evaluatorVars, mainVars>>

\* the plan Orchestrator.run_workflow goes on with: none if the goal holds
\* already (lines 510-514), else what the planner returns (line 515)
WorkflowPlan(state) ==
    IF goals_satisfied(OrchestratorGoals, state) THEN <<>>
    ELSE PlanIn(OrchestratorPlans, state)

\* run_workflow that plans only when main calls it, not from a subscription
RunWorkflowOnce ==
    /\ Running("Orchestrator.run_workflow", "start")
    /\ LET pl == IF Len(stack) = 1 THEN WorkflowPlan(orchestrator_state) ELSE <<>>
       IN  stack' = WithTop([Top EXCEPT !.plan = pl, !.i = 0,
                                        !.pc = IF pl = <<>> THEN "return"
                                                            ELSE "trigger"])
    /\ UNCHANGED <<stackRest, plannerVars, robotVars>>

\* Orchestrator.run_workflow, lines 508-519
RunWorkflow ==
    /\ Running("Orchestrator.run_workflow", "start")
    /\ LET pl == WorkflowPlan(orchestrator_state)
       IN  stack' = WithTop([Top EXCEPT !.plan = pl, !.i = 0,
                                        !.pc = IF pl = <<>> THEN "return"
                                                            ELSE "trigger"])
    /\ UNCHANGED <<stackRest, plannerVars, robotVars>>

\* Orchestrator.run_workflow, lines 521-533: the command of the next action
TriggerAction ==
    /\ Running("Orchestrator.run_workflow", "trigger")
    /\ Top.i < Len(Top.plan)
    /\ PublishFrom(WithTop([Top EXCEPT !.i = @ + 1]), "orchestrator.command",
                   [command |-> Top.plan[Top.i + 1].name])
    /\ UNCHANGED <<publishRest, plannerVars, robotVars>>

\* run_workflow that may return once it has published a command
TriggerEndEarly ==
    /\ Running("Orchestrator.run_workflow", "trigger")
    /\ Top.i >= 1
    /\ stack' = Popped
    /\ UNCHANGED <<stackRest, plannerVars, robotVars>>

\* Orchestrator.run_workflow: the loop over the plan is over
TriggerEnd ==
    /\ Running("Orchestrator.run_workflow", "trigger")
    /\ Top.i = Len(Top.plan)
    /\ stack' = Popped
    /\ UNCHANGED <<stackRest, plannerVars, robotVars>>

----------------------------------------------------------------------------
(* main: the wired scenario *)

\* lines 538-548 have run
InitPipeline ==
    /\ queues = [t \in Topics |-> <<>>]
    /\ subscribers = MainSubscribers
    /\ stack = <<>>
    /\ RobotsConstructed
    /\ HistoryEmpty
    /\ PlannerIdle

\* line 551: orchestrator.run_workflow()
MainRunWorkflow ==
    /\ main_pc = "start"
    /\ stack = <<>>
    /\ stack' = <<CallFrame("Orchestrator.run_workflow", None)>>
    /\ main_pc' = "running"
    /\ UNCHANGED <<stackRest, plannerVars, collector_state, analyticsVars,
                   evaluatorVars, orchestrator_state, recommendation>>

\* line 555: recommendation = broker.consume("niche.recommendation")
MainConsume ==
    /\ main_pc = "running"
    /\ stack = <<>>
    /\ ConsumeCall("niche.recommendation")
    /\ recommendation' = consume("niche.recommendation").result
    /\ main_pc' = "done"
    /\ UNCHANGED <<subscribers, stack, published, last_delivery>>
    /\ UNCHANGED <<plannerVars, collector_state, analyticsVars, evaluatorVars,
                   orchestrator_state>>

NextPipeline ==
    \/ MainRunWorkflow
    \/ MainConsume
    \/ PublishDeliver
    \/ PublishReturn
    \/ Return
    \/ HandleOrchestratorCommand
    \/ CollectData
    \/ CollectDataExecute
    \/ CollectDataPublish
    \/ HandleRawData
    \/ ProcessDataExecute
    \/ ProcessDataPublish
    \/ AnalyzeCategory
    \/ AnalyzeCategoriesEnd
    \/ EvaluatorHandleAnalyzedData
    \/ EvaluatorHandleAudienceData
    \/ OrchestratorUpdateState
    \/ RunWorkflow
    \/ TriggerAction
    \/ TriggerEnd

\* DecisionMaker.handle_evaluations is subscribed in MainSubscribers, and
\* PublishDeliver would call it; NextPipeline has no step for its body only
\* because the scenario never publishes niche.evaluations
\* (PipelineNeverCallsDecisionMaker is an invariant of SpecPipeline).
SpecPipeline == InitPipeline /\ [][NextPipeline]_vars


\* every call on the stack of the scenario is one NextPipeline has steps for
PipelineNeverCallsDecisionMaker ==
    /\ published["niche.evaluations"] = <<>>
    /\ \A k \in 1..Len(stack) : stack[k].fn # "DecisionMaker.handle_evaluations"

----------------------------------------------------------------------------
(* Claims about the wired scenario (SpecPipeline) *)

PlanNames(pl) == [i \in 1..Len(pl) |-> pl[i].name]

\* run_workflow has just computed its plan and has published no command yet
WorkflowPlanned ==
    /\ Running("Orchestrator.run_workflow", "trigger")
    /\ Top.i = 0

\* C6: the scenario of main ends with a niche.recommendation published, the
\* orchestrator's decision_made flag true and main's consume returning a
\* recommendation instead of None.
C6_RunEndsWithRecommendation ==
    main_pc = "done" =>
        /\ published["niche.recommendation"] # <<>>
        /\ orchestrator_state.decision_made
        /\ recommendation # None

\* C8: from all five flags false the orchestrator's plan is exactly
\* collect_data, analyze_data, research_audience, evaluate_niches,
\* make_decision.
C8_PlanFromAllFalse ==
    (WorkflowPlanned /\ orchestrator_state = OrchestratorInitState) =>
        PlanNames(Top.plan) = << "collect_data", "analyze_data", "research_audience",
                                 "evaluate_niches", "make_decision" >>

\* C8 witness: run_workflow has planned with all five flags false.
C8_Witness ==
    /\ WorkflowPlanned
    /\ orchestrator_state = OrchestratorInitState
    /\ Len(Top.plan) = 5

\* C9: whenever the orchestrator replans while data_collected is false,
\* whatever other flags are already true, the plan begins with collect_data
\* and is not a shorter plan that skips it.
C9_ReplanNeverSkipsCollect ==
    (WorkflowPlanned /\ ~orchestrator_state.data_collected) =>
        /\ Top.plan # <<>>
        /\ Top.plan[1].name = "collect_data"


----------------------------------------------------------------------------
(* NicheEvaluator taken on its own: analyzed-data and audience-insights    *)
(* events published to it in any order.                                    *)

\* events published to the evaluator in one run
MaxEvents == 4

\* the categories an analyzed-data event may carry: the first three, one of
\* them alone or two of them, with the trend scores of analyze_trends
EventCategories ==
    LET cat(i) == [CategoryData(CategoryIds[i], CategoryNames[i],
                                [monthly_sales |-> 500, avg_price |-> 10,
                                 competition_score |-> 10])
                      EXCEPT !.trend_score = 50 + 20 * (i % 2)]
    IN  { <<cat(1)>>, <<cat(1), cat(2)>>, <<cat(1), cat(3)>>, <<cat(2), cat(3)>> }

EvaluatorSubscribers ==
    [t \in Topics |->
        CASE t = "market.analyzed_data" -> <<"NicheEvaluator.handle_analyzed_data">>
          [] t = "audience.insights" -> <<"NicheEvaluator.handle_audience_data">>
          [] OTHER -> <<>>]

\* broker = MessageBroker(); evaluator = NicheEvaluator(broker)
InitEvaluator ==
    /\ queues = [t \in Topics |-> <<>>]
    /\ subscribers = EvaluatorSubscribers
    /\ stack = <<>>
    /\ RobotsConstructed
    /\ HistoryEmpty
    /\ PlannerIdle

EventsPublished ==
    Len(published["market.analyzed_data"]) + Len(published["audience.insights"])

\* an analyzed-data event is published
PublishAnalyzedData ==
    /\ stack = <<>>
    /\ EventsPublished < MaxEvents
    /\ \E cats \in EventCategories :
          PublishFrom(stack, "market.analyzed_data",
                      [correlation_id |-> EventsPublished + 1,
                       demand_scores |-> [i \in 1..Len(cats) |->
                                             <<cats[i].id, DemandScore(cats[i])>>],
                       categories |-> cats])
    /\ UNCHANGED <<publishRest, plannerVars, robotVars>>

\* an audience-insights event is published
PublishAudienceInsights ==
    /\ stack = <<>>
    /\ EventsPublished < MaxEvents
    /\ \E i \in 1..3 :
          PublishFrom(stack, "audience.insights",
                      AudienceMessage(CategoryData(CategoryIds[i], CategoryNames[i],
                                                   [monthly_sales |-> 500,
                                                    avg_price |-> 10,
                                                    competition_score |-> 10])))
    /\ UNCHANGED <<publishRest, plannerVars, robotVars>>

NextEvaluator ==
    \/ PublishAnalyzedData
    \/ PublishAudienceInsights
    \/ PublishDeliver
    \/ PublishReturn
    \/ Return
    \/ EvaluatorHandleAnalyzedData
    \/ EvaluatorHandleAudienceData

SpecEvaluator == InitEvaluator /\ [][NextEvaluator]_vars

\* evaluate_categories has just published niche.evaluations
EvaluationsJustPublished ==
    /\ Running("publish", "deliver")
    /\ Top.queue = "niche.evaluations"
    /\ Top.i = 0

\* C7: niche.evaluations is published only when the set of category ids
\* with audience data received equals the expected set of the latest
\* analyzed-data event.
C7_UnlocksOnlyOnExactSet ==
    EvaluationsJustPublished => DOMAIN audience_data = expected_categories


----------------------------------------------------------------------------
(* DecisionMaker taken on its own: niche.evaluations events with any list  *)
(* of evaluations.                                                         *)

\* evaluations carried by the events of one run; every event counts one more
MaxEvaluations == 3

\* one evaluation for the category at position i of the list
EvaluationPool(i) ==
    { [category_id |-> CategoryIds[i], category_name |-> CategoryNames[i],
       profitability_score |-> p, risk_score |-> r, compliance_ok |-> c] :
          p \in {1000, 2000}, r \in {0, 50, 100}, c \in BOOLEAN }

EvaluationLists(n) ==
    { evs \in [1..n -> UNION { EvaluationPool(i) : i \in 1..n }] :
          \A i \in 1..n : evs[i] \in EvaluationPool(i) }

DecisionSubscribers ==
    [t \in Topics |->
        IF t = "niche.evaluations" THEN <<"DecisionMaker.handle_evaluations">>
        ELSE <<>>]

\* broker = MessageBroker(); decision_maker = DecisionMaker(broker)
InitDecision ==
    /\ queues = [t \in Topics |-> <<>>]
    /\ subscribers = DecisionSubscribers
    /\ stack = <<>>
    /\ RobotsConstructed
    /\ HistoryEmpty
    /\ PlannerIdle

\* what the events published so far have used up
EvaluationsUsed ==
    LET evs == published["niche.evaluations"]
    IN  SeqSum([k \in 1..Len(evs) |-> 1 + Len(evs[k].evaluations)])

\* a niche.evaluations event is published
PublishEvaluations ==
    /\ stack = <<>>
    /\ EvaluationsUsed <= MaxEvaluations
    /\ \E n \in 0..(MaxEvaluations - EvaluationsUsed) :
          \E evs \in EvaluationLists(n) :
             PublishFrom(stack, "niche.evaluations", [evaluations |-> evs])
    /\ UNCHANGED <<publishRest, plannerVars, robotVars>>

NextDecision ==
    \/ PublishEvaluations
    \/ PublishDeliver
    \/ PublishReturn
    \/ Return
    \/ HandleEvaluations

SpecDecision == InitDecision /\ [][NextDecision]_vars

\* profitability / max(risk, 0.01) of a is at least that of b
RatioAtLeast(a, b) ==
    LET floor(r) == IF r < 1 THEN 1 ELSE r
    IN  a.profitability_score * floor(b.risk_score)
            >= b.profitability_score * floor(a.risk_score)

\* rec is the answer to the evaluations evs
RightRecommendation(evs, rec) ==
    LET compliant == { i \in 1..Len(evs) : evs[i].compliance_ok }
    IN  IF compliant = {}
        THEN rec.category_id = "none" /\ rec.confidence = 0
        ELSE \E i \in compliant :
                /\ rec.category_id = evs[i].category_id
                /\ \A j \in compliant :
                      /\ RatioAtLeast(evs[i], evs[j])
                      /\ RatioAtLeast(evs[j], evs[i]) => i <= j

\* the handler has not yet answered the newest event
EvaluationsPending ==
    /\ stack # <<>>
    /\ \/ Running("publish", "deliver") /\ Top.queue = "niche.evaluations" /\ Top.i = 0
       \/ Running("DecisionMaker.handle_evaluations", "start")

\* C10: every niche.evaluations event is answered by exactly one
\* niche.recommendation; it names no non-compliant niche: with a compliant
\* evaluation it names the compliant one of the largest
\* profitability / max(risk, 0.01), the first of the list on ties, and with
\* none (an empty list too) it is the result "none" of confidence 0.
C10_RecommendsBestCompliant ==
    LET evs == published["niche.evaluations"]
        recs == published["niche.recommendation"]
    IN  /\ Len(recs) = IF EvaluationsPending THEN Len(evs) - 1 ELSE Len(evs)
        /\ \A k \in 1..Len(recs) : RightRecommendation(evs[k].evaluations, recs[k])

\* a tie of two compliant niches won by the first of them, with a
\* non-compliant niche of a larger ratio ahead of both in the list
C10_Witness ==
    LET evs == published["niche.evaluations"]
        recs == published["niche.recommendation"]
    IN  /\ stack = <<>>
        /\ Len(recs) = 1
        /\ Len(evs[1].evaluations) = 3
        /\ ~evs[1].evaluations[1].compliance_ok
        /\ evs[1].evaluations[1].profitability_score = 2000
        /\ evs[1].evaluations[1].risk_score = 0
        /\ evs[1].evaluations[2].compliance_ok
        /\ evs[1].evaluations[2].profitability_score = 1000
        /\ evs[1].evaluations[2].risk_score = 50
        /\ evs[1].evaluations[3].compliance_ok
        /\ evs[1].evaluations[3].profitability_score = 2000
        /\ evs[1].evaluations[3].risk_score = 100
        /\ recs[1].category_id = CategoryIds[2]


----------------------------------------------------------------------------
(* Failing callbacks.  Neither publish (lines 112-115) nor any handler has *)
(* a try statement, so an exception raised in a callback leaves every      *)
(* frame it passes through: a frame whose pc is "raise" is being left by   *)
(* an exception.                                                           *)

\* a caller that swallows the exception and goes on
PropagatedIsolated(s) == SubSeq(s, 1, Len(s) - 1)

\* the stack after the exception has left the top frame of s: the caller
\* raises in turn, at its call statement
Propagated(s) ==
    IF Len(s) = 1 THEN <<>>
    ELSE [SubSeq(s, 1, Len(s) - 1) EXCEPT ![Len(s) - 1].pc = "raise"]

\* callback cb_fail: raises
CallbackFail ==
    /\ Running("cb_fail", "start")
    /\ stack' = WithTop([Top EXCEPT !.pc = "raise"])
    /\ UNCHANGED <<queues, subscribers, historyVars>>
    /\ UNCHANGED <<plannerVars, robotVars>>

\* the exception leaves the top frame; a publish call left this way is
\* recorded with the callbacks it had invoked
Propagate ==
    /\ stack # <<>>
    /\ Top.pc = "raise"
    /\ stack' = Propagated(stack)
    /\ last_delivery' = IF Top.fn = "publish"
                        THEN Some([queue |-> Top.queue,
                                   registered |-> Top.registered,
                                   invoked |-> Top.invoked,
                                   failed |-> TRUE])
                        ELSE last_delivery
    /\ UNCHANGED <<queues, subscribers, published, consumed, last_consume>>
    /\ UNCHANGED <<plannerVars, robotVars>>

\* the client calls subscribe(queue, cb_fail)
ClientSubscribeFailing ==
    /\ stack = <<>>
    /\ \E queue \in ClientTopics :
          /\ TotalSubscribed < MaxSubscribers
          /\ subscribers' = [subscribers EXCEPT ![queue] = Append(@, "cb_fail")]
    /\ UNCHANGED <<queues, stack, historyVars>>
    /\ UNCHANGED <<plannerVars, robotVars>>

NextFailure ==
    \/ ClientSubscribe
    \/ ClientSubscribeFailing
    \/ ClientPublish
    \/ ClientConsume
    \/ PublishDeliver
    \/ PublishReturn
    \/ Return
    \/ CallbackNoop
    \/ CallbackSubscribe
    \/ CallbackForward
    \/ CallbackConsume
    \/ CallbackFail
    \/ Propagate

SpecFailure == InitBroker /\ [][NextFailure]_vars

\* C11: a frame left by an exception has nothing running above it, and the
\* next step takes it off the stack and makes its caller raise at the call:
\* a publish whose callback failed invokes no later subscriber, and the
\* failure goes up through every enclosing callback and publish to the
\* first caller.
C11_FailurePropagates ==
    /\ [](\A k \in 1..Len(stack) : stack[k].pc = "raise" => k = Len(stack))
    /\ [][(stack # <<>> /\ Top.pc = "raise") =>
             /\ Len(stack') = Len(stack) - 1
             /\ \A k \in 1..Len(stack') :
                   stack'[k] = IF k = Len(stack')
                               THEN [stack[k] EXCEPT !.pc = "raise"]
                               ELSE stack[k]]_vars

\* C11 witness: a failure two publishes deep has gone up to the outermost
\* publish, which is left while a subscriber of its topic has not been
\* invoked
C11_Witness ==
    /\ Len(stack) = 1
    /\ Running("publish", "raise")
    /\ Top.queue = "t1"
    /\ Top.invoked = <<"cb_forward">>
    /\ Top.i < Len(subscribers["t1"])
    /\ last_delivery # None
    /\ last_delivery[1].queue = "t2"
    /\ "failed" \in DOMAIN last_delivery[1]


----------------------------------------------------------------------------
(* The two planning stages fed by the broker, DataCollector behind         *)
(* handle_orchestrator_command and AnalyticsEngine, taken on their own:    *)
(* the collector starts from any assignment of its five facts, a client    *)
(* publishes commands and raw-data events, and a subscriber of             *)
(* market.raw_data sends the collect_data command again from inside the    *)
(* collector's publish, as the orchestrator's replanning does.             *)

\* events the client publishes in one run
MaxStageEvents == 3

StageCommands == {"collect_data", "analyze_data"}

StageSubscribers ==
    [t \in Topics |->
        CASE t = "orchestrator.command" -> <<"handle_orchestrator_command">>
          [] t = "market.raw_data" ->
                <<"cb_recommand", "AnalyticsEngine.handle_raw_data">>
          [] OTHER -> <<>>]

InitStages ==
    /\ queues = [t \in Topics |-> <<>>]
    /\ subscribers = StageSubscribers
    /\ stack = <<>>
    /\ collector_state \in BoolStatesLike(CollectorInitState)
    /\ analytics_state = AnalyticsInitState
    /\ demand_scores = None
    /\ analytics_categories = None
    /\ evaluator_state = EvaluatorInitState
    /\ category_data = EmptyDict
    /\ audience_data = EmptyDict
    /\ expected_categories = {}
    /\ orchestrator_state = OrchestratorInitState
    /\ main_pc = "start"
    /\ recommendation = None
    /\ HistoryEmpty
    /\ PlannerIdle

\* raw-data events that did not come from DataCollector.publish_data
ClientRawEvents ==
    SelectSeq(published["market.raw_data"], LAMBDA m : m.platform = "client")

StageEventsPublished ==
    Len(published["orchestrator.command"]) + Len(ClientRawEvents)

\* the client publishes a command
PublishCommand ==
    /\ stack = <<>>
    /\ StageEventsPublished < MaxStageEvents
    /\ \E command \in StageCommands :
          PublishFrom(stack, "orchestrator.command", [command |-> command])
    /\ UNCHANGED <<publishRest, plannerVars, robotVars>>

\* the client publishes a raw-data event of its own
PublishRawData ==
    /\ stack = <<>>
    /\ StageEventsPublished < MaxStageEvents
    /\ \E draws \in RandomDraws :
          PublishFrom(stack, "market.raw_data",
                      [RawDataMessage(draws) EXCEPT !.platform = "client"])
    /\ UNCHANGED <<publishRest, plannerVars, robotVars>>

\* callback cb_recommand: broker.publish("orchestrator.command",
\* {"command": "collect_data"}) while the raw-data event is being delivered
CallbackRecommand ==
    /\ Running("cb_recommand", "start")
    /\ PublishFrom(WithTop([Top EXCEPT !.pc = "return"]), "orchestrator.command",
                   [command |-> "collect_data"])
    /\ UNCHANGED <<publishRest, plannerVars, robotVars>>

NextStages ==
    \/ PublishCommand
    \/ PublishRawData
    \/ CallbackRecommand
    \/ PublishDeliver
    \/ PublishReturn
    \/ Return
    \/ HandleOrchestratorCommand
    \/ CollectData
    \/ CollectDataExecute
    \/ CollectDataPublish
    \/ HandleRawData
    \/ ProcessDataExecute
    \/ ProcessDataPublish

SpecStages == InitStages /\ [][NextStages]_vars

\* the collector is about to plan and its plan will be empty
CollectorPlansNothing ==
    /\ Running("DataCollector.collect_data", "start")
    /\ plan(CollectorActions, CollectorGoals, collector_state) = <<>>

\* the analyzer has received a raw-data event and its plan will be empty
AnalyzerPlansNothing ==
    /\ Running("AnalyticsEngine.handle_raw_data", "start")
    /\ plan(AnalyticsActions, AnalyticsGoals,
            [analytics_state EXCEPT !.raw_data_received = TRUE]) = <<>>

\* the call on top of the stack is over with nothing published
StageStops ==
    /\ stack' = WithTop([Top EXCEPT !.pc = "return"])
    /\ published' = published
    /\ queues' = queues

\* C12: a stage whose plan is empty stops.  The collector returns with its
\* state untouched; the analyzer returns with raw_data_received set and
\* nothing else changed; neither executes an action nor publishes, and the
\* call that returns afterwards is never seen executing or publishing.
C12_EmptyPlanStops ==
    /\ [](\A k \in 1..Len(stack) :
             (/\ stack[k].fn \in {"DataCollector.collect_data",
                                  "AnalyticsEngine.handle_raw_data"}
              /\ stack[k].plan = <<>>) => stack[k].pc \in {"start", "return"})
    /\ [][/\ CollectorPlansNothing =>
                /\ StageStops
                /\ collector_state' = collector_state
          /\ AnalyzerPlansNothing =>
                /\ StageStops
                /\ analytics_state' = [analytics_state EXCEPT !.raw_data_received = TRUE]
                /\ demand_scores' = demand_scores
                /\ analytics_categories' = analytics_categories]_vars

\* C12 witness: the analyzer has returned from a second raw-data event with
\* an empty plan after the collector, asked again from inside its own
\* publish, had returned with an empty plan too
C12_Witness ==
    /\ Running("AnalyticsEngine.handle_raw_data", "return")
    /\ Top.plan = <<>>
    /\ analytics_state.trends_identified
    /\ Len(published["market.analyzed_data"]) = 1
    /\ Len(published["market.raw_data"]) = 2
    /\ Len(published["orchestrator.command"]) = 3


\* the collector's calls on the stack whose plan has the fallback action
FallbackPlanned ==
    { k \in 1..Len(stack) :
         /\ stack[k].fn = "DataCollector.collect_data"
         /\ \E i \in 1..Len(stack[k].plan) :
               stack[k].plan[i].name = "fallback_api_scraping" }

\* C13: api_available never changes, whatever the collector executes, and a
\* plan of the collector has fallback_api_scraping only when api_available
\* is false and catalog_accessible true: with api_available true at the
\* start the fallback is in no plan, before or during an execution.
C13_FallbackOnlyWithoutApi ==
    /\ [](\A k \in FallbackPlanned :
             /\ ~collector_state.api_available
             /\ collector_state.catalog_accessible)
    /\ [][/\ collector_state'.api_available = collector_state.api_available
          /\ collector_state'.catalog_accessible = collector_state.catalog_accessible]_vars

\* C13 witness: the collector has executed the fallback of its plan and goes
\* on with the rest of it, api_available still false
C13_Witness ==
    /\ Running("DataCollector.collect_data", "execute")
    /\ FallbackPlanned # {}
    /\ Top.i >= 1
    /\ Top.i < Len(Top.plan)
    /\ Top.plan[Top.i].name = "fallback_api_scraping"
    /\ collector_state.has_category_sales
    /\ ~collector_state.api_available


\* a publish call on the given topic has just been made: nothing delivered yet
JustPublished(queue) ==
    /\ Running("publish", "deliver")
    /\ Top.queue = queue
    /\ Top.i = 0

\* C14: when a planning stage publishes its completion event after running
\* its plan, the effects of the actions it ran hold in its state, so that
\* its state satisfies its goal: the collector at market.raw_data, the
\* analyzer at market.analyzed_data, the evaluator at niche.evaluations.
C14_GoalHoldsAtCompletion ==
    /\ (JustPublished("market.raw_data") /\ Top.message.platform = "wildberries")
          => goals_satisfied(CollectorGoals, collector_state)
    /\ JustPublished("market.analyzed_data") /\ Len(stack) > 1
          => goals_satisfied(AnalyticsGoals, analytics_state)
    /\ JustPublished("niche.evaluations")
          => goals_satisfied(EvaluatorGoals, evaluator_state)


\* the evaluator holds the analyzed-data event and audience data for exactly
\* the categories of that event
JoinComplete ==
    /\ evaluator_state.category_data_ready
    /\ DOMAIN audience_data = expected_categories

\* C15: in whichever order the events came, once every handler has returned
\* with the join complete, niche.evaluations has been published.
C15_CompleteJoinPublishes ==
    (stack = <<>> /\ JoinComplete) => published["niche.evaluations"] # <<>>


\* the completion flag of the step a command names (the effects of lines
\* 460-491)
CommandFlag(command) ==
    CASE command = "collect_data" -> "data_collected"
      [] command = "analyze_data" -> "data_analyzed"
      [] command = "research_audience" -> "audience_analyzed"
      [] command = "evaluate_niches" -> "niches_evaluated"
      [] OTHER -> "decision_made"

\* C16: when the orchestrator publishes a command, the completion flag of
\* the step it names is false in the orchestrator's state, and decision_made
\* is false: no command is published for a step already done.
C16_CommandsOnlyForOpenSteps ==
    JustPublished("orchestrator.command") =>
        /\ ~orchestrator_state[CommandFlag(Top.message.command)]
        /\ ~orchestrator_state.decision_made


----------------------------------------------------------------------------
(* The wired scenario run to its end: the program is one thread, which     *)
(* takes its next step as long as it has one.                              *)

SpecPipelineFair == SpecPipeline /\ WF_vars(NextPipeline)

\* positions of the collector's calls on the stack
CollectorCalls ==
    { k \in 1..Len(stack) : stack[k].fn = "DataCollector.collect_data" }

\* collect_data has been called while an earlier call of it is on the stack
CollectorReentered == Cardinality(CollectorCalls) >= 2

\* C17: the scenario comes to a state where the collector is called for a
\* second collect_data command while its first call has not returned.
C17_DuplicateCommandInFlight == <>CollectorReentered

\* C17 witness: the second call is at its start; below it on the stack are
\* the first call, the publish of market.raw_data that call made, a
\* run_workflow started by a subscription and the command it published
C17_Witness ==
    /\ Running("DataCollector.collect_data", "start")
    /\ \E c \in CollectorCalls, p, w, q \in 1..Len(stack) :
          /\ c < p /\ p < w /\ w < q /\ q < Len(stack)
          /\ stack[c].pc = "return"
          /\ p = c + 1
          /\ stack[p].fn = "publish" /\ stack[p].queue = "market.raw_data"
          /\ stack[w].fn = "Orchestrator.run_workflow"
          /\ stack[q].fn = "publish" /\ stack[q].queue = "orchestrator.command"
          /\ stack[q].message.command = "collect_data"
    /\ published["market.raw_data"] # <<>>


\* the raw-data events DataCollector.publish_data has published
CollectorRawEvents ==
    SelectSeq(published["market.raw_data"], LAMBDA m : m.platform = "wildberries")

\* C18: whatever commands the collector receives, one after another or
\* while an earlier call of collect_data is still on the stack, it publishes
\* at most one raw-data event; at most one of its calls on the stack has a
\* plan to execute, and a call that finds the three goal facts set has none.
C18_AtMostOneRawDataEvent ==
    /\ Len(CollectorRawEvents) <= 1
    /\ Cardinality({ k \in CollectorCalls : stack[k].plan # <<>> }) <= 1
    /\ (Running("DataCollector.collect_data", "execute") /\ Top.i = 0)
          => ~goals_satisfied(CollectorGoals, collector_state)

\* C18 witness: a collect_data command received inside the collector's own
\* publish, with the three goal facts set, has ended with an empty plan
C18_Witness ==
    /\ Running("DataCollector.collect_data", "return")
    /\ Top.plan = <<>>
    /\ Cardinality(CollectorCalls) = 2
    /\ Len(CollectorRawEvents) = 1
    /\ goals_satisfied(CollectorGoals, collector_state)


\* the call on top of the stack is over in the next state
TopCallEnds ==
    /\ stack # <<>>
    /\ Len(stack') = Len(stack) - 1
    /\ stack' = SubSeq(stack, 1, Len(stack') )

\* C19: the run_workflow call of main returns, so that main goes on to its
\* consume: the nesting of publish, handler, replanning and command ends;
\* and a call that had started a plan ends only with the plan's last action
\* behind it.
C19_WorkflowReturns ==
    /\ <>(main_pc = "done" /\ stack = <<>>)
    /\ [][(TopCallEnds /\ Top.plan # <<>>) => Top.i = Len(Top.plan)]_vars

\* C19 witness: main is past run_workflow after commands were published
\* again from nested replanning and the stages had run their plans
C19_Witness ==
    /\ main_pc = "done"
    /\ stack = <<>>
    /\ Len(published["orchestrator.command"]) > Len(OrchestratorActions)
    /\ published["market.analyzed_data"] # <<>>
    /\ Len(published["audience.insights"]) = Len(CategoryNames)


\* every flag of the dict that is true before the step is true after it
StaysSet(before, after) ==
    \A key \in DOMAIN before : before[key] => (key \in DOMAIN after /\ after[key])

\* C20: no step turns a flag of the collector, the analyzer, the evaluator
\* or the orchestrator from true to false.
C20_FlagsAreSetOnly ==
    [][/\ StaysSet(collector_state, collector_state')
       /\ StaysSet(analytics_state, analytics_state')
       /\ StaysSet(evaluator_state, evaluator_state')
       /\ StaysSet(orchestrator_state, orchestrator_state')]_vars

\* C20 witness: at the end of the scenario the flags set on the way are all
\* still set
C20_Witness ==
    /\ main_pc = "done"
    /\ goals_satisfied(CollectorGoals, collector_state)
    /\ \A key \in DOMAIN analytics_state : analytics_state[key]
    /\ evaluator_state.category_data_ready
    /\ orchestrator_state.data_collected
    /\ orchestrator_state.data_analyzed
    /\ orchestrator_state.audience_analyzed


----------------------------------------------------------------------------
(* Termination of the planner: the encodings of the states reachable from  *)
(* the initial one are finitely many, and every pass of the loop that does *)
(* not return either explores one more of them or shortens the frontier.   *)

\* the encodings of the states that can be reached from s with catalog A
ReachableEncodings(A, s) == { state_hash(t) : t \in ReachableStates(A, s) }

\* the pass of the loop that this step is has pushed a node
NodePushed ==
    /\ plan_pc = "loop"
    /\ frontier # <<>>
    /\ Len(frontier') >= Len(frontier)

\* C21: plan returns for every catalog, goal and state, catalogs whose
\* actions undo each other included.  The explored encodings are encodings
\* of reachable states and are never forgotten; a pass pushes successors
\* only for a node whose encoding was not explored and is explored from
\* then on, so each encoding is expanded at most once; a pass that does not
\* return explores a new encoding or leaves the frontier shorter, so the
\* passes are finitely many; and with the frontier empty the call returns
\* the empty plan.
C21_PlanTerminates ==
    /\ [](explored \subseteq ReachableEncodings(plan_actions, plan_state))
    /\ [][/\ explored \subseteq explored'
          /\ NodePushed =>
                /\ state_hash(heappop(frontier).item.state) \notin explored
                /\ explored' = explored \cup {state_hash(heappop(frontier).item.state)}
          /\ (plan_pc = "loop" /\ plan_pc' = "loop") =>
                \/ explored' # explored
                \/ Len(frontier') < Len(frontier)
          /\ (plan_pc = "loop" /\ frontier = <<>>) =>
                (plan_pc' = "returned" /\ plan_result' = <<>>)]_vars

\* C21 witness: with set_p and q_unset_p in the catalog, which undo each
\* other, the search came back to encodings it had explored and returned
\* the empty plan with the frontier exhausted
C21_Witness ==
    /\ plan_pc = "returned"
    /\ plan_result = <<>>
    /\ frontier = <<>>
    /\ Cardinality(explored) >= 4
    /\ \E i, j \in 1..Len(plan_actions) :
          /\ plan_actions[i].name = "set_p"
          /\ plan_actions[j].name = "q_unset_p"
    /\ ~GoalReachable(plan_actions, plan_goals, plan_state)


----------------------------------------------------------------------------
(* GOAPPlanner.plan with its dicts as objects.  dict_objects is the store  *)
(* of the state dicts the call works on, a dict's identity being its       *)
(* position: [1] is the dict the caller passed, the state of a node is a   *)
(* reference into the store, dict.copy() makes a new object and            *)
(* apply_effects writes into the object it is given.                       *)

\* a copy that is the same object
dict_copyAlias(objects, ref) == [objects |-> objects, ref |-> ref]

\* dict.copy(): a new object with the same items
dict_copy(objects, ref) ==
    [objects |-> Append(objects, objects[ref]), ref |-> Len(objects) + 1]

\* apply_effects(action, state): state[key] = value on the object itself
apply_effects_in_place(action, objects, ref) ==
    [objects EXCEPT ![ref] = apply_effects(action, objects[ref])]

\* lines 75-83 on the store and the heap
RECURSIVE PushSuccessorObjects(_, _, _, _, _)
PushSuccessorObjects(heap, objects, actions, node, i) ==
    IF i > Len(actions) THEN [heap |-> heap, objects |-> objects]
    ELSE IF can_perform(actions[i], objects[node.state])
         THEN LET copied == dict_copy(objects, node.state)
              IN  PushSuccessorObjects(
                      heappush(heap, Node(copied.ref,
                                          Append(node.actions, actions[i]),
                                          node.cost + actions[i].cost)),
                      apply_effects_in_place(actions[i], copied.objects, copied.ref),
                      actions, node, i + 1)
         ELSE PushSuccessorObjects(heap, objects, actions, node, i + 1)

\* the caller holds its state dict, object 1
InitPlannerObjects ==
    /\ \E in \in PlannerInputs :
          /\ plan_actions = in[1]
          /\ plan_goals = in[2]
          /\ plan_state = in[3]
    /\ dict_objects = <<plan_state>>
    /\ frontier = <<>>
    /\ explored = {}
    /\ plan_pc = "call"
    /\ plan_result = <<>>
    /\ BrokerEmpty
    /\ RobotsConstructed
    /\ HistoryEmpty

plannerArguments == <<plan_actions, plan_goals, plan_state>>

\* lines 64-66: the root node holds a copy of the caller's dict
ObjectPlanCall ==
    /\ plan_pc = "call"
    /\ LET copied == dict_copy(dict_objects, 1)
       IN  /\ dict_objects' = copied.objects
           /\ frontier' = heappush(<<>>, Node(copied.ref, <<>>, 0))
    /\ plan_pc' = "loop"
    /\ UNCHANGED <<plannerArguments, explored, plan_result>>
    /\ UNCHANGED <<brokerVars, robotVars, historyVars>>

\* lines 68-70
ObjectPlanReturnGoal ==
    /\ plan_pc = "loop"
    /\ frontier # <<>>
    /\ LET popped == heappop(frontier)
       IN  /\ goals_satisfied(plan_goals, dict_objects[popped.item.state])
           /\ frontier' = popped.heap
           /\ plan_result' = popped.item.actions
    /\ plan_pc' = "returned"
    /\ UNCHANGED <<plannerArguments, explored, dict_objects>>
    /\ UNCHANGED <<brokerVars, robotVars, historyVars>>

\* lines 71-73
ObjectPlanSkipExplored ==
    /\ plan_pc = "loop"
    /\ frontier # <<>>
    /\ LET popped == heappop(frontier)
       IN  /\ ~goals_satisfied(plan_goals, dict_objects[popped.item.state])
           /\ state_hash(dict_objects[popped.item.state]) \in explored
           /\ frontier' = popped.heap
    /\ UNCHANGED <<plannerArguments, explored, plan_pc, plan_result, dict_objects>>
    /\ UNCHANGED <<brokerVars, robotVars, historyVars>>

\* lines 74-83
ObjectPlanExpand ==
    /\ plan_pc = "loop"
    /\ frontier # <<>>
    /\ LET popped == heappop(frontier)
           pushed == PushSuccessorObjects(popped.heap, dict_objects, plan_actions,
                                          popped.item, 1)
       IN  /\ ~goals_satisfied(plan_goals, dict_objects[popped.item.state])
           /\ state_hash(dict_objects[popped.item.state]) \notin explored
           /\ explored' = explored \cup {state_hash(dict_objects[popped.item.state])}
           /\ frontier' = pushed.heap
           /\ dict_objects' = pushed.objects
    /\ UNCHANGED <<plannerArguments, plan_pc, plan_result>>
    /\ UNCHANGED <<brokerVars, robotVars, historyVars>>

\* line 84
ObjectPlanExhausted ==
    /\ plan_pc = "loop"
    /\ frontier = <<>>
    /\ plan_result' = <<>>
    /\ plan_pc' = "returned"
    /\ UNCHANGED <<plannerArguments, frontier, explored, dict_objects>>
    /\ UNCHANGED <<brokerVars, robotVars, historyVars>>

NextPlannerObjects ==
    \/ ObjectPlanCall
    \/ ObjectPlanReturnGoal
    \/ ObjectPlanSkipExplored
    \/ ObjectPlanExpand
    \/ ObjectPlanExhausted

SpecPlannerObjects == InitPlannerObjects /\ [][NextPlannerObjects]_vars

\* the references the nodes of the frontier hold
FrontierRefs == { frontier[n].state : n \in 1..Len(frontier) }

\* C22: the dict the caller passed and the catalog are as they were at the
\* call; no dict of the store is written after the step that made it, so
\* the state of a pushed node stays as it was pushed; every node of the
\* frontier has a dict of its own, not the caller's and not another
\* node's, which holds what the node's actions make of the caller's state:
\* the keys of their effects set or overwritten, no key removed.
C22_PlanCopiesStates ==
    /\ [](/\ dict_objects[1] = plan_state
          /\ 1 \notin FrontierRefs
          /\ Cardinality(FrontierRefs) = Len(frontier)
          /\ \A n \in 1..Len(frontier) :
                /\ dict_objects[frontier[n].state]
                      = RunPlan(frontier[n].actions, plan_state).state
                /\ DOMAIN plan_state \subseteq DOMAIN dict_objects[frontier[n].state])
    /\ [][/\ plan_actions' = plan_actions
          /\ plan_state' = plan_state
          /\ \A ref \in 1..Len(dict_objects) :
                dict_objects'[ref] = dict_objects[ref]]_vars

\* C22 witness: the search has returned a plan of two actions or more with
\* nodes left in the frontier, one of which holds a dict where p, true in
\* the caller's dict, was overwritten with false
C22_Witness ==
    /\ plan_pc = "returned"
    /\ Len(plan_result) >= 2
    /\ "p" \in DOMAIN plan_state
    /\ plan_state["p"]
    /\ \E ref \in FrontierRefs : ~dict_objects[ref]["p"]
    /\ dict_objects[1] = plan_state

=============================================================================
